---- MODULE Spec2Model ----
(***************************************************************************)
(* A model of the googlevoice client: the Voice session object             *)
(* (googlevoice/voice.py), the response validation and feed parser         *)
(* (googlevoice/util.py) and the command line front end                    *)
(* (googlevoice/__main__.py).                                              *)
(*                                                                         *)
(* Python values are written as strings: None is "None", True is "True",   *)
(* an attribute that was never set is "absent".  A dict is a function from *)
(* its keys to its values.  The remote service is the environment: every   *)
(* page it answers with is chosen by \E in the action that requests it.    *)
(***************************************************************************)
EXTENDS Integers, Sequences, FiniteSets, TLC

VARIABLES
    special,    \* Voice._special: "absent", "None" or a session token
    reqs,       \* the HTTP requests issued by the last operation, in order
    prompts,    \* the interactive prompts issued by the last operation
    last,       \* what the last operation was given and how it ended
    parser,     \* the XMLParser of a feed of the instance: attr, json, html
    files,      \* the file system: the content of every file, by path
    cli,        \* the run of the command line program
    wire        \* the thread of the library and its requests in flight

vars == <<special, reqs, prompts, last, parser, files, cli, wire>>

----------------------------------------------------------------------------
(* Python values *)

None == "None"
Absent == "absent"
Tokens == {"t1", "t2"}

\* bool(x) for the values the model uses
PyTruthy(x) == x \notin {None, Absent, "", "False", "0"}

\* x or y
PyOr(x, y) == IF PyTruthy(x) THEN x ELSE y

EmptyDict == [k \in {} |-> None]

\* The data argument of a request: a dict, or None.  Each carries its type,
\* as the code tests it with isinstance.
Dict(items) == [type |-> "dict", items |-> items]
NoData == [type |-> "NoneType"]

\* dict.update: the keys of new override those of old
DictUpdate(old, new) == new @@ old

----------------------------------------------------------------------------
(* Requests *)

\* the pages __do_special_page is used for: the validated actions, the
\* message operations and the XML feeds
ActionPages == {"call", "cancel", "sms", "default_forward"}
MessagePages == {"archive", "delete", "star", "mark"}
FeedPages == {"XML_INBOX", "XML_SEARCH"}
SpecialPages == ActionPages \cup MessagePages \cup FeedPages

\* Voice.__do_url: POST when there is data, GET otherwise.  held records
\* the cached token of the instance at the moment the request is sent.
DoUrl(m, url, data) ==
    [m EXCEPT !.reqs = Append(@,
        [page |-> url,
         method |-> IF data.type = "dict" /\ DOMAIN data.items # {}
                    THEN "POST" ELSE "GET",
         data |-> data,
         held |-> m.special])]

\* Voice.__do_page
DoPage(m, page, data) == DoUrl(m, page, data)

\* The inbox page as the service returns it: inbox is the value the text
\* "'_rnr_se': '...'" carries in it, or None when the page has no such text.
InboxPages == Tokens \cup {None}

\* Voice.special (property): the cached token when there is one, otherwise
\* the inbox page is fetched, searched for the token, and the result (None
\* when the pattern does not match) is cached.
SpecialGet(m, inbox) ==
    IF PyTruthy(m.special)
    THEN [m |-> m, value |-> m.special]
    ELSE [m |-> [DoUrl(m, "INBOX", NoData) EXCEPT !.special = inbox],
          value |-> inbox]

\* __do_special_page without its assertion: the page is requested whether
\* or not a token was found
DoSpecialPage_NoAssert(m, page, data, inbox) ==
    LET s == SpecialGet(m, inbox)
    IN  [m |-> DoPage(s.m, page,
                      IF data.type = "dict"
                      THEN Dict(DictUpdate(data.items,
                                           [_rnr_se |-> s.m.special]))
                      ELSE data),
         exc |-> ""]

\* __do_special_page that leaves the data as the caller gave it
DoSpecialPage_NoToken(m, page, data, inbox) ==
    LET s == SpecialGet(m, inbox)
    IN  IF ~PyTruthy(s.value)
        THEN [m |-> s.m, exc |-> "AssertionError"]
        ELSE [m |-> DoPage(s.m, page, data), exc |-> ""]

\* Voice.__do_special_page: the assertion reads the special property (which
\* may fetch the inbox); a dict gets the token added to it.  No caller in
\* the package passes a tuple, so data is a dict or None here.
DoSpecialPage(m, page, data, inbox) ==
    LET s == SpecialGet(m, inbox)
    IN  IF ~PyTruthy(s.value)
        THEN [m |-> s.m, exc |-> "AssertionError"]
        ELSE [m |-> DoPage(s.m, page,
                        IF data.type = "dict"
                        THEN Dict(DictUpdate(data.items,
                                             [_rnr_se |-> s.m.special]))
                        ELSE data),
              exc |-> ""]

----------------------------------------------------------------------------
(* JSON *)

\* The JSON texts of the model and what json.loads / Response.json() make of
\* them; every other text is not JSON.
JsonTexts == {"{}", "{\"ok\": true}", "{\"ok\": false}", "{\"data\": 0}"}

JsonValue(text) ==
    CASE text = "{}" -> EmptyDict
      [] text = "{\"ok\": true}" -> [ok |-> "True"]
      [] text = "{\"ok\": false}" -> [ok |-> "False"]
      [] text = "{\"data\": 0}" -> [data |-> "0"]

\* json.loads(text): the decoded value, or ValueError
JsonLoads(text) ==
    IF text \in JsonTexts
    THEN [exc |-> "", value |-> JsonValue(text)]
    ELSE [exc |-> "ValueError", value |-> None]

\* validate_response that tests only for the presence of the key
ValidateResponse_KeyOnly(response) ==
    IF "ok" \in DOMAIN response THEN "" ELSE "ValidationError"

\* util.validate_response: the failed assertion becomes ValidationError
ValidateResponse(response) ==
    IF "ok" \in DOMAIN response /\ PyTruthy(response["ok"])
    THEN ""
    ELSE "ValidationError"

\* util.load_and_validate: response.json(), then validate_response
LoadAndValidate(body) ==
    LET j == JsonLoads(body)
    IN  IF j.exc # "" THEN j.exc ELSE ValidateResponse(j.value)

\* Voice.__validate_special_page
ValidateSpecialPage(m, page, data, inbox, body) ==
    LET r == DoSpecialPage(m, page, data, inbox)
    IN  IF r.exc # "" THEN r ELSE [m |-> r.m, exc |-> LoadAndValidate(body)]

\* the bodies the service answers a validated action with
ActionBodies == JsonTexts \cup {"<html>"}

----------------------------------------------------------------------------
(* Login and logout *)

\* conf.config as Voice reads it: the values of ~/.gvoice, None when unset
Configs ==
    [email : {None, "cfg@x"}, password : {None, "cfgpw"}, smsKey : {None, "KEY"}]

\* What the service answers during one login: whether the login page
\* carries the hidden gxf field, whether the credentials POST lands on the
\* SMSAUTH url, and the inbox page.  py2 is the interpreter the package runs
\* under (it supports both through six).
\* The smsauth page answers the first `rejected` code submissions of a
\* login with "The code you entered didn&#39;t verify." and the next one
\* with a page that carries the smsToken field, or does not.
LoginEnvs ==
    [gxf : BOOLEAN, sms : BOOLEAN, py2 : BOOLEAN, inbox : InboxPages,
     smsauth : {[rejected |-> 0, smsToken |-> TRUE]}]

\* try_count < 5 in the loop of __smsAuth
MaxSmsTries == 5

\* the same, with every way the smsauth page may answer
SmsAnswers == [rejected : 0..MaxSmsTries, smsToken : BOOLEAN]
SmsLoginEnvs ==
    {[gxf |-> TRUE, sms |-> sms, py2 |-> py2, inbox |-> inbox, smsauth |-> a] :
        sms \in BOOLEAN, py2 \in BOOLEAN, inbox \in InboxPages,
        a \in SmsAnswers}

\* the page that answers code submission number n
SmsContent(n, env) ==
    [marker |-> n <= env.smsauth.rejected,
     smsToken |-> n > env.smsauth.rejected /\ env.smsauth.smsToken]

Prompt(m, text) == [m EXCEPT !.prompts = Append(@, text)]

\* Response.read(): session.request returns a requests.Response, which has
\* no read attribute, so the call raises AttributeError.
ResponseRead == "AttributeError"

\* Voice.__oathtoolAuth: the code generated by oathtool is posted, then the
\* response is read.  n is the number of the submission.
OathtoolAuth(m, n, env) ==
    LET m1 == DoPage(m, "smsauth", Dict([smsUserPin |-> "totp"]))
    IN  IF ResponseRead # ""
        THEN [m |-> m1, exc |-> ResponseRead, content |-> None]
        ELSE [m |-> m1, exc |-> "", content |-> SmsContent(n, env)]

\* the while loop of __smsAuth: a is what the last submission came to and
\* try_count the number of submissions made
RECURSIVE SmsRetry(_, _, _)
SmsRetry(a, try_count, env) ==
    IF a.exc # "" THEN a
    ELSE IF a.content.marker /\ try_count < MaxSmsTries
         THEN SmsRetry(OathtoolAuth(a.m, try_count + 1, env),
                       try_count + 1, env)
         ELSE a

\* Voice.__smsAuth.  With no key the PIN is asked for and posted.  With a key
\* the key is decoded: bytes.encode("hex") exists under Python 2 only, under
\* Python 3 it raises AttributeError before anything is sent.  Either way
\* the response is then read, which raises, so the retry loop is not reached.
SmsAuth(m, smsKey, cfg, env) ==
    LET key == IF smsKey = None THEN cfg.smsKey ELSE smsKey
    IN  IF key = None
        THEN LET m1 == DoPage(Prompt(m, "SMS PIN: "), "smsauth",
                              Dict([smsUserPin |-> "typed"]))
             IN  IF ResponseRead # ""
                 THEN [m |-> m1, exc |-> ResponseRead, content |-> None]
                 ELSE [m |-> m1, exc |-> "", content |-> SmsContent(1, env)]
        ELSE IF ~env.py2
             THEN [m |-> m, exc |-> "AttributeError", content |-> None]
             ELSE SmsRetry(OathtoolAuth(m, 1, env), 1, env)

\* login that looks for the session token before it posts the credentials
VoiceLogin_InboxFirst(m, email, passwd, smsKey, cfg, env) ==
    IF PyTruthy(m.special)
    THEN [m |-> m, exc |-> ""]
    ELSE
    LET m3 == DoPage(m, "login", NoData)
        s == SpecialGet(m3, env.inbox)
        m4 == DoPage(s.m, "login_post",
                     Dict([Email |-> PyOr(PyOr(email, cfg.email), "typed@x"),
                           Passwd |-> PyOr(PyOr(passwd, cfg.password),
                                           "typedpw"),
                           gxf |-> "gxf"]))
    IN  [m |-> m4, exc |-> IF PyTruthy(s.value) THEN "" ELSE "LoginError"]

\* Voice.login
VoiceLogin(m, email, passwd, smsKey, cfg, env) ==
    IF PyTruthy(m.special)
    THEN [m |-> m, exc |-> ""]
    ELSE
    LET m1 == IF PyTruthy(PyOr(email, cfg.email))
              THEN m ELSE Prompt(m, "Email address: ")
        em == PyOr(PyOr(email, cfg.email), "typed@x")
        m2 == IF PyTruthy(PyOr(passwd, cfg.password))
              THEN m1 ELSE Prompt(m1, "Password: ")
        pw == PyOr(PyOr(passwd, cfg.password), "typedpw")
        m3 == DoPage(m2, "login", NoData)
    IN  IF ~env.gxf
        THEN [m |-> m3, exc |-> "AttributeError"]
        ELSE
        LET m4 == DoPage(m3, "login_post",
                         Dict([Email |-> em, Passwd |-> pw, gxf |-> "gxf"]))
            a == IF env.sms THEN SmsAuth(m4, smsKey, cfg, env)
                 ELSE [m |-> m4, exc |-> "", content |-> None]
            \* the smsToken of the page is posted; a page without one is
            \* a LoginError
            b == IF ~env.sms \/ a.exc # ""
                 THEN [m |-> a.m, exc |-> a.exc]
                 ELSE IF ~a.content.smsToken
                 THEN [m |-> a.m, exc |-> "LoginError"]
                 ELSE [m |-> DoPage(a.m, "login",
                                    Dict([smsToken |-> "smsToken",
                                          service |-> "grandcentral"])),
                       exc |-> ""]
        IN  IF b.exc # ""
            THEN b
            ELSE LET s == SpecialGet(b.m, env.inbox)
                 IN  [m |-> s.m,
                      exc |-> IF PyTruthy(s.value) THEN "" ELSE "LoginError"]

\* logout without its final assertion
VoiceLogout_NoAssert(m, inbox) ==
    LET m1 == DoPage(m, "logout", NoData)
    IN  IF m1.special = Absent
        THEN [m |-> m1, exc |-> "AttributeError"]
        ELSE [m |-> SpecialGet([m1 EXCEPT !.special = Absent], inbox).m,
              exc |-> ""]

\* Voice.logout: del self._special raises AttributeError when the attribute
\* was never set; the assertion reads the special property, which fetches
\* the inbox again and caches what it finds.
VoiceLogout(m, inbox) ==
    LET m1 == DoPage(m, "logout", NoData)
    IN  IF m1.special = Absent
        THEN [m |-> m1, exc |-> "AttributeError"]
        ELSE LET s == SpecialGet([m1 EXCEPT !.special = Absent], inbox)
             IN  [m |-> s.m,
                  exc |-> IF s.value = None THEN "" ELSE "AssertionError"]

----------------------------------------------------------------------------
(* Validated actions and message operations *)

Numbers == {"n1"}

\* Voice.call: the forwarding number and the phone type default to those of
\* the configuration
VoiceCall(m, outgoingNumber, forwardingNumber, phoneType, subscriberNumber, cfgForwarding, cfgPhoneType, inbox, body) ==
    ValidateSpecialPage(m, "call", Dict(
        [outgoingNumber |-> outgoingNumber,
         forwardingNumber |-> IF forwardingNumber = None
                              THEN cfgForwarding ELSE forwardingNumber,
         subscriberNumber |-> PyOr(subscriberNumber, "undefined"),
         phoneType |-> IF phoneType = None THEN cfgPhoneType ELSE phoneType,
         remember |-> "1"]), inbox, body)

\* Voice.cancel
VoiceCancel(m, outgoingNumber, forwardingNumber, inbox, body) ==
    ValidateSpecialPage(m, "cancel", Dict(
        [outgoingNumber |-> PyOr(outgoingNumber, "undefined"),
         forwardingNumber |-> PyOr(forwardingNumber, "undefined"),
         cancelType |-> "C2C"]), inbox, body)

\* Voice.send_sms
VoiceSendSms(m, phoneNumber, text, inbox, body) ==
    ValidateSpecialPage(m, "sms",
        Dict([phoneNumber |-> phoneNumber, text |-> text]), inbox, body)

\* Phone.__call_forwarding, which Phone.enable calls with '1' and
\* Phone.disable with '0'
PhoneCallForwarding(m, phoneId, enabled, inbox, body) ==
    ValidateSpecialPage(m, "default_forward",
        Dict([enabled |-> enabled, phoneId |-> phoneId]), inbox, body)

\* A message argument is a Message instance or the SHA1 identifier itself
MessageIds == {"m1", "m2"}
Msgs ==
    {[type |-> "Message", id |-> i] : i \in MessageIds}
        \cup {[type |-> "str", value |-> i] : i \in MessageIds}

\* msg.id if isinstance(msg, util.Message), else msg
MsgId(msg) == IF msg.type = "Message" THEN msg.id ELSE msg.value

\* Voice.__messages_post with one message: the keyword arguments and the
\* message identifier are the data of the request
MessagesPost(m, page, msg, kwargs, inbox) ==
    DoSpecialPage(m, page, Dict(DictUpdate(kwargs, [messages |-> MsgId(msg)])),
                  inbox)

----------------------------------------------------------------------------
(* Downloads *)

Cwd == "/cwd"

\* What the service does with a download request: the request raises (no
\* connection), or it is answered with a status and a body.
DownloadReplies ==
    {[raises |-> TRUE, status |-> 0, content |-> ""]}
        \cup [raises : {FALSE}, status : {200, 404, 500},
              content : {"mp3a", "mp3b"}]

\* Response.raise_for_status: HTTPError for a 4xx or 5xx status
RaiseForStatus(reply) ==
    IF reply.status >= 400 /\ reply.status < 600 THEN "HTTPError" ELSE ""

\* download that opens and writes the file before it looks at the status
VoiceDownload_WriteFirst(m, fs, msg, adir, reply) ==
    LET id == MsgId(msg)
        dir == IF adir = None THEN Cwd ELSE adir
        m1 == DoUrl(m, "DOWNLOAD" \o id, NoData)
        fn == dir \o "/" \o id \o ".mp3"
    IN  IF reply.raises
        THEN [m |-> m1, fs |-> fs, exc |-> "DownloadError", value |-> None]
        ELSE IF RaiseForStatus(reply) # ""
        THEN [m |-> m1, fs |-> (fn :> reply.content) @@ fs,
              exc |-> "DownloadError", value |-> None]
        ELSE [m |-> m1, fs |-> (fn :> reply.content) @@ fs, exc |-> "",
              value |-> fn]

\* Voice.download: fs is the file system, which the call returns changed
\* together with the path it returns
VoiceDownload(m, fs, msg, adir, reply) ==
    LET id == MsgId(msg)
        dir == IF adir = None THEN Cwd ELSE adir
        m1 == DoUrl(m, "DOWNLOAD" \o id, NoData)
    IN  IF reply.raises \/ RaiseForStatus(reply) # ""
        THEN [m |-> m1, fs |-> fs, exc |-> "DownloadError", value |-> None]
        ELSE LET fn == dir \o "/" \o id \o ".mp3"
             IN  [m |-> m1, fs |-> (fn :> reply.content) @@ fs, exc |-> "",
                  value |-> fn]

----------------------------------------------------------------------------
(* The feed parser *)

\* A document is the sequence of events expat reports for it: an element
\* start, an element end, or a run of character data.
StartEv(name) == [k |-> "start", v |-> name]
EndEv(name) == [k |-> "end", v |-> name]
DataEv(text) == [k |-> "data", v |-> text]

\* XMLParser.__init__
NewParser == [attr |-> None, json |-> "", html |-> ""]

\* XMLParser.start_element
StartElement(p, name) ==
    IF name \in {"json", "html"} THEN [p EXCEPT !.attr = name] ELSE p

\* XMLParser.end_element
EndElement(p, name) == [p EXCEPT !.attr = None]

\* XMLParser.char_data
CharData(p, data) ==
    IF PyTruthy(p.attr) /\ PyTruthy(data)
    THEN [p EXCEPT ![p.attr] = @ \o data]
    ELSE p

\* parser.Parse(data, 1): expat calls the handlers event by event and raises
\* ExpatError at the first event that breaks well-formedness (text or a
\* second element outside the root, a mismatched end tag) or at the end of
\* input when an element is still open or there was no element at all.
\* stack holds the open elements; closed is TRUE once the root has ended.
RECURSIVE ExpatParse(_, _, _, _, _)
ExpatParse(p, doc, i, stack, closed) ==
    IF i > Len(doc)
    THEN [p |-> p, exc |-> IF stack = <<>> /\ closed THEN "" ELSE "ExpatError"]
    ELSE
    LET e == doc[i]
    IN  CASE e.k = "start" ->
                IF closed
                THEN [p |-> p, exc |-> "ExpatError"]
                ELSE ExpatParse(StartElement(p, e.v), doc, i + 1,
                                Append(stack, e.v), FALSE)
          [] e.k = "end" ->
                IF stack = <<>> \/ stack[Len(stack)] # e.v
                THEN [p |-> p, exc |-> "ExpatError"]
                ELSE ExpatParse(EndElement(p, e.v), doc, i + 1,
                                SubSeq(stack, 1, Len(stack) - 1),
                                Len(stack) = 1)
          [] e.k = "data" ->
                IF stack = <<>>
                THEN [p |-> p, exc |-> "ExpatError"]
                ELSE ExpatParse(CharData(p, e.v), doc, i + 1, stack, closed)

\* Folder.__init__
NewFolder(name, data) == [type |-> "Folder", name |-> name, items |-> data]

\* data that lets the error of json.loads through as it is
ParserData_Unwrapped(p) == JsonLoads(p.json)

\* XMLParser.data (property)
ParserData(p) ==
    LET j == JsonLoads(p.json)
    IN  IF j.exc # ""
        THEN [exc |-> "JSONError", value |-> None]
        ELSE j

\* XMLParser.folder (property)
ParserFolder(p, name) ==
    LET d == ParserData(p)
    IN  IF d.exc # "" THEN d
        ELSE [exc |-> "", value |-> NewFolder(name, d.value)]

\* __call__ that wraps the errors of the XML parse only: what the data
\* callback raises reaches the caller unchanged
XMLParserCall_Reraise(p, name, df) ==
    LET p0 == [p EXCEPT !.json = "", !.html = ""]
    IN  IF df.exc # ""
        THEN [p |-> p0, exc |-> df.exc, value |-> None]
        ELSE LET x == ExpatParse(p0, df.text, 1, <<>>, FALSE)
             IN  IF x.exc # ""
                 THEN [p |-> x.p, exc |-> "ParsingError", value |-> None]
                 ELSE LET f == ParserFolder(x.p, name)
                      IN  [p |-> x.p, exc |-> f.exc, value |-> f.value]

\* XMLParser.__call__.  df is what the data callback did: the exception it
\* raised, if any, and otherwise the document it returned.
XMLParserCall(p, name, df) ==
    LET p0 == [p EXCEPT !.json = "", !.html = ""]
    IN  IF df.exc # ""
        THEN [p |-> p0, exc |-> "ParsingError", value |-> None]
        ELSE LET x == ExpatParse(p0, df.text, 1, <<>>, FALSE)
             IN  IF x.exc # ""
                 THEN [p |-> x.p, exc |-> "ParsingError", value |-> None]
                 ELSE LET f == ParserFolder(x.p, name)
                      IN  [p |-> x.p, exc |-> f.exc, value |-> f.value]

\* the getter Voice.__get_xml_page makes: the text of the XML page, which
\* is requested as a special page with no data
Getter(m, page, inbox, doc) ==
    LET r == DoSpecialPage(m, page, NoData, inbox)
    IN  [m |-> r.m, exc |-> r.exc, text |-> doc]

----------------------------------------------------------------------------
(* The documents the service answers a feed request with *)

MaxDocLen == 6

Tags == {"json", "html", "response"}
Chunks == {"{}"}

\* the well-formed contents, and elements, of exactly n events
RECURSIVE Contents(_), Elements(_)
Contents(n) ==
    IF n = 0 THEN {<<>>}
    ELSE {<<DataEv(c)>> \o r : c \in Chunks, r \in Contents(n - 1)}
         \cup UNION {{e \o r : e \in Elements(j), r \in Contents(n - j)} :
                     j \in 2..n}
Elements(n) ==
    IF n < 2 THEN {}
    ELSE {<<StartEv(t)>> \o c \o <<EndEv(t)>> :
            t \in Tags, c \in Contents(n - 2)}

WellFormedDocs == UNION {Elements(n) : n \in 2..MaxDocLen}

\* documents expat rejects: an answer cut short, a mismatched end tag, text
\* or an element after the root, and an answer that is not XML at all
BrokenDocs ==
    UNION {{SubSeq(d, 1, n) : n \in 0..(Len(d) - 1)} :
             d \in UNION {Elements(k) : k \in 2..4}}
        \cup {<<StartEv("json"), DataEv(c), EndEv("html")>> : c \in Chunks}
        \cup {<<StartEv("json"), EndEv("json"), e>> :
                 e \in {DataEv("{}"), StartEv("html")}}
        \cup {<<DataEv("{}")>>}

FeedDocs == WellFormedDocs \cup (BrokenDocs \ WellFormedDocs)

\* The character data a document has inside its elements called tag, at any
\* depth, in document order.
RECURSIVE TextInside(_, _, _, _)
TextInside(doc, tag, i, stack) ==
    IF i > Len(doc) THEN ""
    ELSE
    LET e == doc[i]
    IN  CASE e.k = "start" -> TextInside(doc, tag, i + 1, Append(stack, e.v))
          [] e.k = "end" ->
                TextInside(doc, tag, i + 1, SubSeq(stack, 1, Len(stack) - 1))
          [] e.k = "data" ->
                (IF \E n \in 1..Len(stack) : stack[n] = tag THEN e.v ELSE "")
                    \o TextInside(doc, tag, i + 1, stack)

\* no json or html element of the document lies inside another one
Flat(doc) ==
    \A i \in 1..Len(doc), j \in 1..Len(doc) :
        (/\ i < j
         /\ doc[i].k = "start" /\ doc[i].v \in {"json", "html"}
         /\ doc[j].k = "start" /\ doc[j].v \in {"json", "html"})
        => \E n \in (i + 1)..(j - 1) :
                doc[n].k = "end" /\ doc[n].v = doc[i].v

----------------------------------------------------------------------------
(* The state machine of one Voice instance *)

\* the instance at the start of an operation: the request and prompt logs
\* are those of the operation
Start == [special |-> special, reqs |-> <<>>, prompts |-> <<>>]

Commit(m) ==
    /\ special' = m.special
    /\ reqs' = m.reqs
    /\ prompts' = m.prompts

Outcome(exc) == IF exc = "" THEN "returned" ELSE exc

\* the thread outside every operation, nothing sent
IdleWire == [pc |-> "idle", script |-> <<>>, sent |-> 0, inflight |-> {}]

Init ==
    /\ special = Absent
    /\ reqs = <<>>
    /\ prompts = <<>>
    /\ last = [op |-> "init", outcome |-> "returned"]
    /\ parser = NewParser
    /\ files = EmptyDict
    /\ cli = [pc |-> "shell"]
    /\ wire = IdleWire

Emails == {None, "me@x"}
Passwds == {None, "pw"}
SmsKeys == {None, "KEY"}

Login ==
    \E email \in Emails, passwd \in Passwds, smsKey \in SmsKeys,
       cfg \in Configs, env \in LoginEnvs :
        LET r == VoiceLogin(Start, email, passwd, smsKey, cfg, env)
        IN  /\ Commit(r.m)
            /\ last' = [op |-> "login", outcome |-> Outcome(r.exc),
                        before |-> special, env |-> env]
            /\ UNCHANGED <<parser, files, cli, wire>>

Logout ==
    \E inbox \in InboxPages :
        LET r == VoiceLogout(Start, inbox)
        IN  /\ Commit(r.m)
            /\ last' = [op |-> "logout", outcome |-> Outcome(r.exc),
                        before |-> special, inbox |-> inbox]
            /\ UNCHANGED <<parser, files, cli, wire>>

\* what an operation that uses a special page leaves in last
SpecialOp(name, r, inbox, body) ==
    /\ Commit(r.m)
    /\ last' = [op |-> name, outcome |-> Outcome(r.exc), before |-> special,
                inbox |-> inbox, body |-> body]
    /\ UNCHANGED <<parser, files, cli, wire>>

Call ==
    \E outgoing \in Numbers, forwarding \in Numbers \cup {None},
       phoneType \in {None, "2"}, subscriber \in {None},
       cfgForwarding \in {None, "n0"}, cfgPhoneType \in {None, "1"},
       inbox \in InboxPages, body \in ActionBodies :
        SpecialOp("call",
                  VoiceCall(Start, outgoing, forwarding, phoneType, subscriber,
                            cfgForwarding, cfgPhoneType, inbox, body),
                  inbox, body)

Cancel ==
    \E outgoing \in Numbers \cup {None}, forwarding \in Numbers \cup {None},
       inbox \in InboxPages, body \in ActionBodies :
        SpecialOp("cancel",
                  VoiceCancel(Start, outgoing, forwarding, inbox, body),
                  inbox, body)

SendSms ==
    \E phoneNumber \in Numbers, text \in {"hi"},
       inbox \in InboxPages, body \in ActionBodies :
        SpecialOp("send_sms",
                  VoiceSendSms(Start, phoneNumber, text, inbox, body),
                  inbox, body)

PhoneEnable ==
    \E phoneId \in {"1", "2"}, inbox \in InboxPages, body \in ActionBodies :
        SpecialOp("enable",
                  PhoneCallForwarding(Start, phoneId, "1", inbox, body),
                  inbox, body)

PhoneDisable ==
    \E phoneId \in {"1", "2"}, inbox \in InboxPages, body \in ActionBodies :
        SpecialOp("disable",
                  PhoneCallForwarding(Start, phoneId, "0", inbox, body),
                  inbox, body)

\* Voice.archive
Archive ==
    \E msg \in Msgs, archive \in {"0", "1"}, inbox \in InboxPages :
        SpecialOp("archive",
                  MessagesPost(Start, "archive", msg, [archive |-> archive],
                               inbox),
                  inbox, None)

\* Voice.delete, and Message.delete, which passes its own id
Delete ==
    \E msg \in Msgs, trash \in {"0", "1"}, inbox \in InboxPages :
        SpecialOp("delete",
                  MessagesPost(Start, "delete", msg, [trash |-> trash], inbox),
                  inbox, None)

\* Message.star
Star ==
    \E id \in MessageIds, star \in {"0", "1"}, inbox \in InboxPages :
        SpecialOp("star",
                  MessagesPost(Start, "star", [type |-> "str", value |-> id],
                               [star |-> star], inbox),
                  inbox, None)

\* Message.mark
Mark ==
    \E id \in MessageIds, read \in {"0", "1"}, inbox \in InboxPages :
        SpecialOp("mark",
                  MessagesPost(Start, "mark", [type |-> "str", value |-> id],
                               [read |-> read], inbox),
                  inbox, None)

----------------------------------------------------------------------------
(* The feeds of the instance *)

\* the inbox page matters only when the special property fetches it
InboxFor(sp) == IF PyTruthy(sp) THEN {None} ELSE InboxPages

FeedOp(name, df, c) ==
    /\ Commit(df.m)
    /\ last' = [op |-> name, outcome |-> Outcome(c.exc), df |-> df.exc,
                wellformed |-> df.text \in WellFormedDocs,
                flat |-> Flat(df.text),
                injson |-> TextInside(df.text, "json", 1, <<>>),
                inhtml |-> TextInside(df.text, "html", 1, <<>>),
                result |-> c.value, json |-> c.p.json, html |-> c.p.html]
    /\ UNCHANGED <<files, cli, wire>>

\* voice.inbox(): the parser made for the feed in Voice.__init__ is called
Feed ==
    \E inbox \in InboxFor(special), doc \in FeedDocs :
        LET df == Getter(Start, "XML_INBOX", inbox, doc)
            c == XMLParserCall(parser, "inbox", df)
        IN  /\ FeedOp("feed", df, c)
            /\ parser' = c.p

\* Voice.search: a parser is made for the search page and called at once
Search ==
    \E inbox \in InboxFor(special), doc \in FeedDocs :
        LET df == Getter(Start, "XML_SEARCH", inbox, doc)
            c == XMLParserCall(NewParser, "search", df)
        IN  /\ FeedOp("search", df, c)
            /\ UNCHANGED parser

\* voice.inbox.data and voice.inbox.folder, read after (or before) a call
ReadData ==
    /\ last' = [op |-> "data", outcome |-> Outcome(ParserData(parser).exc),
                result |-> ParserData(parser).value]
    /\ reqs' = <<>>
    /\ prompts' = <<>>
    /\ UNCHANGED <<special, parser, files, cli, wire>>

ReadFolder ==
    /\ last' = [op |-> "folder",
                outcome |-> Outcome(ParserFolder(parser, "inbox").exc),
                result |-> ParserFolder(parser, "inbox").value]
    /\ reqs' = <<>>
    /\ prompts' = <<>>
    /\ UNCHANGED <<special, parser, files, cli, wire>>

\* the session, the actions and the search of one instance
Next ==
    \/ Login
    \/ Logout
    \/ Call
    \/ Cancel
    \/ SendSms
    \/ PhoneEnable
    \/ PhoneDisable
    \/ Archive
    \/ Delete
    \/ Star
    \/ Mark
    \/ Search

Spec == Init /\ [][Next]_vars

FeedNext ==
    \/ Feed
    \/ Search
    \/ ReadData
    \/ ReadFolder

FeedSpec == Init /\ [][FeedNext]_vars

----------------------------------------------------------------------------
(* Downloading messages *)

Dirs == {None, "/tmp"}

\* Voice.download, and Message.download, which passes the message itself
Download ==
    \E msg \in Msgs, adir \in Dirs, reply \in DownloadReplies :
        LET r == VoiceDownload(Start, files, msg, adir, reply)
        IN  /\ Commit(r.m)
            /\ files' = r.fs
            /\ last' = [op |-> "download", outcome |-> Outcome(r.exc),
                        msg |-> msg, adir |-> adir, reply |-> reply,
                        before |-> files, result |-> r.value]
            /\ UNCHANGED <<parser, cli, wire>>

DownloadNext == Download

DownloadSpec == Init /\ [][DownloadNext]_vars

----------------------------------------------------------------------------
(* The authentication flow *)

\* Voice.login against every way the service may answer the flow, the
\* smsauth page included; key is the SMS key the login works with
LoginFlow ==
    \E email \in Emails, passwd \in {"pw"}, smsKey \in SmsKeys,
       cfgKey \in SmsKeys, env \in SmsLoginEnvs \cup LoginEnvs :
        LET cfg == [email |-> None, password |-> None, smsKey |-> cfgKey]
            r == VoiceLogin(Start, email, passwd, smsKey, cfg, env)
        IN  /\ Commit(r.m)
            /\ last' = [op |-> "login", outcome |-> Outcome(r.exc),
                        before |-> special, env |-> env,
                        key |-> IF smsKey = None THEN cfgKey ELSE smsKey]
            /\ UNCHANGED <<parser, files, cli, wire>>

LoginNext ==
    \/ LoginFlow
    \/ Logout

LoginSpec == Init /\ [][LoginNext]_vars

----------------------------------------------------------------------------
(* The requests of an operation, one by one *)

\* The operations of the library, each with what the service will answer
\* to it: the instance the operation leaves behind (m, with the requests it
\* sends, in order), the file system it leaves, and how it ends.
LibraryCalls ==
    {[op |-> "login", m |-> r.m, fs |-> files, exc |-> r.exc] :
        r \in {VoiceLogin(Start, e, pw, k, cfg, env) :
                  e \in Emails, pw \in Passwds, k \in SmsKeys,
                  cfg \in Configs, env \in LoginEnvs}}
    \cup {[op |-> "logout", m |-> r.m, fs |-> files, exc |-> r.exc] :
            r \in {VoiceLogout(Start, inbox) : inbox \in InboxPages}}
    \cup {[op |-> "send_sms", m |-> r.m, fs |-> files, exc |-> r.exc] :
            r \in {VoiceSendSms(Start, n, "hi", inbox, body) :
                      n \in Numbers, inbox \in InboxPages,
                      body \in ActionBodies}}
    \cup {[op |-> "star", m |-> r.m, fs |-> files, exc |-> r.exc] :
            r \in {MessagesPost(Start, "star", [type |-> "str", value |-> id],
                                [star |-> "1"], inbox) :
                      id \in MessageIds, inbox \in InboxPages}}
    \cup {[op |-> "search", m |-> r.m, fs |-> files, exc |-> r.exc] :
            r \in {Getter(Start, "XML_SEARCH", inbox, <<>>) :
                      inbox \in InboxPages}}
    \cup {[op |-> "download", m |-> r.m, fs |-> r.fs, exc |-> r.exc] :
            r \in {VoiceDownload(Start, files, [type |-> "str", value |-> id],
                                 None, reply) :
                      id \in MessageIds, reply \in DownloadReplies}}

\* session.request that returns at once, before the response has come
SessionRequest_Async(w) ==
    [w EXCEPT !.sent = @ + 1, !.inflight = @ \cup {w.sent + 1}]

\* session.request in Voice.__do_url: the request is sent and the thread
\* stays inside the call until the response, or the failure, has come
SessionRequest(w) ==
    [w EXCEPT !.pc = "blocked", !.sent = @ + 1,
              !.inflight = @ \cup {w.sent + 1}]

\* a method of the library is called
WireCall ==
    /\ wire.pc = "idle"
    /\ \E c \in LibraryCalls :
        wire' = [pc |-> "running", script |-> c.m.reqs, sent |-> 0,
                 inflight |-> {}, call |-> c]
    /\ reqs' = <<>>
    /\ prompts' = <<>>
    /\ last' = [op |-> "called", outcome |-> "running"]
    /\ UNCHANGED <<special, parser, files, cli>>

\* the thread reaches the next __do_url of the method
WireRequest ==
    /\ wire.pc = "running"
    /\ wire.sent < Len(wire.script)
    /\ wire' = SessionRequest(wire)
    /\ reqs' = Append(reqs, wire.script[wire.sent + 1])
    /\ UNCHANGED <<special, prompts, last, parser, files, cli>>

\* the response of a request in flight comes, or the request fails, and
\* session.request returns or raises
WireResponse ==
    /\ wire.pc = "blocked"
    /\ \E i \in wire.inflight :
        wire' = [wire EXCEPT !.pc = "running", !.inflight = @ \ {i}]
    /\ UNCHANGED <<special, reqs, prompts, last, parser, files, cli>>

\* the method returns or raises after its last request
WireReturn ==
    /\ wire.pc = "running"
    /\ wire.sent = Len(wire.script)
    /\ special' = wire.call.m.special
    /\ prompts' = wire.call.m.prompts
    /\ files' = wire.call.fs
    /\ last' = [op |-> wire.call.op, outcome |-> Outcome(wire.call.exc)]
    /\ wire' = IdleWire
    /\ UNCHANGED <<reqs, parser, cli>>

WireNext ==
    \/ WireCall
    \/ WireRequest
    \/ WireResponse
    \/ WireReturn

WireSpec == Init /\ [][WireNext]_vars

----------------------------------------------------------------------------
(* The command line program, googlevoice/__main__.py *)

YES == {"", "y"}
TRUTH == {"True", "true"}

\* str.lower, on the answers of the model
Lower(a) == IF a = "Y" THEN "y" ELSE IF a = "N" THEN "n" ELSE a

\* environ_override that looks at the keyword argument only
EnvironOverride_KwargOnly(kwarg, environ) == PyOr(kwarg, None)

\* environ_override in login: the keyword argument, else the environment
\* variable, else the fallback (None)
EnvironOverride(kwarg, environ) == PyOr(PyOr(kwarg, environ), None)

\* what optparse makes of the command line: -e, -p and -b
Options == [email : {None, "opt@x"}, passwd : {None, "optpw"}, batch : BOOLEAN]

\* the first positional argument, "interactive" when there is none
CliActions == {"help", "interactive", "send_sms"}

\* os.environ: the three variables login reads, None when unset
Environs ==
    [GOOGLE_VOICE_USER : {None, "env@x"}, GOOGLE_VOICE_PASS : {None, "envpw"},
     GOOGLE_VOICE_BATCH : {None, "true", "1"}]

Answers == {"", "Y", "n"}

\* main, up to the call of login: the options are parsed, help prints the
\* usage and exits, otherwise a Voice is made and login(voice) is called
\* with no keyword argument
MainStart ==
    /\ cli.pc = "shell"
    /\ \E options \in Options, action \in CliActions, environ \in Environs :
        cli' = [pc |-> IF action = "help" THEN "exit" ELSE "login",
                options |-> options, action |-> action, environ |-> environ,
                kwargs |-> [email |-> None, passwd |-> None, batch |-> None],
                calls |-> <<>>, asked |-> <<>>, loggedin |-> FALSE]
    /\ special' = Absent
    /\ parser' = NewParser
    /\ reqs' = <<>>
    /\ prompts' = <<>>
    /\ last' = [op |-> "main", outcome |-> "returned"]
    /\ UNCHANGED <<files, wire>>

\* login(voice, **kwargs) up to its return or its retry question: the
\* credentials and the batch flag are looked up, voice.login is called, and
\* a LoginError ends the function in batch mode and asks otherwise.  Any
\* other exception leaves main and ends the program.
MainLogin ==
    /\ cli.pc = "login"
    /\ \E cfg \in Configs, env \in LoginEnvs :
        LET email == EnvironOverride(cli.kwargs.email,
                                     cli.environ.GOOGLE_VOICE_USER)
            passwd == EnvironOverride(cli.kwargs.passwd,
                                      cli.environ.GOOGLE_VOICE_PASS)
            batch == EnvironOverride(cli.kwargs.batch,
                                     cli.environ.GOOGLE_VOICE_BATCH) \in TRUTH
            r == VoiceLogin(Start, email, passwd, None, cfg, env)
            ask == r.exc = "LoginError" /\ ~batch
        IN  /\ Commit(r.m)
            /\ cli' = [cli EXCEPT
                    !.pc = IF r.exc = "" THEN "loggedin"
                           ELSE IF r.exc # "LoginError" THEN "crash"
                           ELSE IF batch THEN "exit" ELSE "retry",
                    !.calls = Append(@, [email |-> email, passwd |-> passwd]),
                    !.asked = @ \o r.m.prompts
                              \o (IF ask THEN <<"Login failed. Retry? [Y/n] ">>
                                  ELSE <<>>),
                    !.loggedin = (r.exc = "")]
            /\ last' = [op |-> "cli_login", outcome |-> Outcome(r.exc),
                        batch |-> batch]
    /\ UNCHANGED <<parser, files, wire>>

\* the answer to the retry question: yes calls login again with the
\* credentials cleared and batch forced on, anything else returns False
MainRetry ==
    /\ cli.pc = "retry"
    /\ \E answer \in Answers :
        /\ cli' = IF Lower(answer) \in YES
                  THEN [cli EXCEPT !.pc = "login",
                                   !.kwargs = [email |-> None, passwd |-> None,
                                               batch |-> "True"]]
                  ELSE [cli EXCEPT !.pc = "exit"]
        /\ last' = [op |-> "cli_retry", outcome |-> "returned",
                    answer |-> answer]
    /\ UNCHANGED <<special, reqs, prompts, parser, files, wire>>

\* main after a login that succeeded: with no command the interactive loop
\* asks for one, otherwise the command is run
MainDispatch ==
    /\ cli.pc = "loggedin"
    /\ cli' = IF cli.action = "interactive"
              THEN [cli EXCEPT !.pc = "interactive",
                               !.asked = Append(@, "gvoice> ")]
              ELSE [cli EXCEPT !.pc = "command"]
    /\ last' = [op |-> "cli_dispatch", outcome |-> "returned"]
    /\ UNCHANGED <<special, reqs, prompts, parser, files, wire>>

MainNext ==
    \/ MainStart
    \/ MainLogin
    \/ MainRetry
    \/ MainDispatch

MainSpec == Init /\ [][MainNext]_vars

\* The program is one thread that runs each statement after the other, and
\* a question put to the user is taken to be answered: no step of main
\* that can be taken is put off for ever.
MainFairSpec == MainSpec /\ WF_vars(MainNext)

----------------------------------------------------------------------------
(* Properties *)

SpecialRequests == {i \in DOMAIN reqs : reqs[i].page \in SpecialPages}
Requested(page) == \E i \in DOMAIN reqs : reqs[i].page = page

\* C1: when login returns normally the instance holds a session token, and
\* whenever the credentials were posted and no session token was then found
\* in the inbox page, login raises LoginError and leaves no cached token.
C1_LoginContract ==
    last.op = "login" =>
        /\ last.outcome = "returned" => special \in Tokens
        /\ (Requested("login_post") /\ special \notin Tokens) =>
                /\ last.outcome = "LoginError"
                /\ special \in {None, Absent}

\* C2: no request goes to a special page unless the instance holds a session
\* token at the moment of the request, and an operation on a special page
\* that ends with no token held has failed without requesting the page.
ValidatedOps == {"call", "cancel", "send_sms", "enable", "disable"}
MessageOps == {"archive", "delete", "star", "mark"}
FeedOps == {"feed", "search"}
SpecialOps == ValidatedOps \cup MessageOps \cup FeedOps

C2_LoginBeforeSpecialPage ==
    /\ \A i \in SpecialRequests : reqs[i].held \in Tokens
    /\ (last.op \in SpecialOps /\ special \notin Tokens) =>
            /\ SpecialRequests = {}
            /\ last.outcome \in {"AssertionError", "ParsingError"}

\* a call made with no token cached, which the inbox page then supplied
C2_Witness ==
    /\ last.op = "call"
    /\ last.before = Absent
    /\ SpecialRequests # {}

\* C3: a logout that returns normally leaves the cached token None and has
\* fetched, after the logout request, an inbox page with no session token;
\* when that inbox page still carries a token, logout fails with an
\* AssertionError and the instance caches the token again.
InboxAfterLogout ==
    \E i, j \in DOMAIN reqs :
        i < j /\ reqs[i].page = "logout" /\ reqs[j].page = "INBOX"

C3_LogoutClearsSession ==
    last.op = "logout" =>
        /\ last.outcome = "returned" =>
                special = None /\ InboxAfterLogout /\ last.inbox = None
        /\ (InboxAfterLogout /\ last.inbox \in Tokens) =>
                last.outcome = "AssertionError" /\ special = last.inbox

\* a logged-in instance logged out normally
C3_Witness ==
    /\ last.op = "logout"
    /\ last.before \in Tokens
    /\ last.outcome = "returned"

\* C4: after a call of the parser that returned a Folder, the json attribute
\* is all the character data inside the json element of the document and
\* the html attribute all the character data inside its html element, in
\* every well-formed document, child elements or not; the Folder holds the
\* decoded json.  Stated for the documents in which no json or html element
\* lies inside another one.
C4_ParserCollects ==
    (last.op \in FeedOps /\ last.outcome = "returned" /\ last.flat) =>
        /\ last.json = last.injson
        /\ last.html = last.inhtml
        /\ last.result.items = JsonValue(last.json)

C6_ParsingError ==
    (last.op \in FeedOps /\ (last.df # "" \/ ~last.wellformed)) =>
        /\ last.outcome = "ParsingError"
        /\ last.result = None

\* a feed asked for with no session: the assertion of the getter fails
C6_Witness ==
    /\ last.op = "feed"
    /\ last.df = "AssertionError"
    /\ last.outcome = "ParsingError"

\* C7: when the document parses as XML and the collected json text is not
\* JSON (the empty text of a document with no json element included), the
\* call of the parser raises JSONError, as does reading data or folder, and
\* never ParsingError; when the text is JSON, data is its decoded value.
C7_JsonError ==
    /\ (last.op \in FeedOps /\ last.df = "" /\ last.wellformed) =>
            IF last.json \in JsonTexts
            THEN /\ last.outcome = "returned"
                 /\ last.result.items = JsonValue(last.json)
            ELSE last.outcome = "JSONError"
    /\ last.op = "data" =>
            IF parser.json \in JsonTexts
            THEN last.outcome = "returned" /\ last.result = JsonValue(parser.json)
            ELSE last.outcome = "JSONError"
    /\ (last.op = "folder" /\ parser.json \notin JsonTexts) =>
            last.outcome = "JSONError"

\* a well-formed feed with no json element
C7_Witness ==
    /\ last.op = "feed"
    /\ last.df = ""
    /\ last.wellformed
    /\ last.injson = ""
    /\ last.outcome = "JSONError"

\* C8: a download whose request raises or is answered with an HTTP error
\* status raises DownloadError and leaves the file system as it was; any
\* other download writes the body to the one file <id>.mp3 of adir (of the
\* current directory when adir is None) and returns its path.
C8_Download ==
    last.op = "download" =>
        LET id == IF last.msg.type = "Message"
                  THEN last.msg.id ELSE last.msg.value
            path == (IF last.adir = None THEN "/cwd" ELSE last.adir)
                        \o "/" \o id \o ".mp3"
        IN  IF last.reply.raises \/ last.reply.status \in {404, 500}
            THEN last.outcome = "DownloadError" /\ files = last.before
            ELSE /\ last.outcome = "returned"
                 /\ last.result = path
                 /\ DOMAIN files = DOMAIN last.before \cup {path}
                 /\ files[path] = last.reply.content
                 /\ \A f \in DOMAIN last.before \ {path} :
                        files[f] = last.before[f]

\* a Message downloaded to the current directory, next to an earlier file
C8_Witness ==
    /\ last.op = "download"
    /\ last.outcome = "returned"
    /\ last.msg.type = "Message"
    /\ last.adir = None
    /\ DOMAIN last.before # {}
    /\ DOMAIN files # DOMAIN last.before

C10_OptionsHonoured ==
    cli.pc # "shell" =>
        /\ (cli.options.batch /\ cli.action # "interactive") =>
                cli.asked = <<>>
        /\ (cli.calls # <<>> /\ cli.options.email # None) =>
                cli.calls[1].email = cli.options.email
        /\ (cli.calls # <<>> /\ cli.options.passwd # None) =>
                cli.calls[1].passwd = cli.options.passwd

\* C11, the part the program keeps as stated: one run of the command line
\* login calls Voice.login at most twice and puts the retry question at
\* most once; batch is on exactly when the batch keyword is True or
\* GOOGLE_VOICE_BATCH is 'true'; a LoginError in batch mode ends the login
\* with False and no question, a LoginError otherwise puts the question
\* once; a refusal ends the login with False, an accepted retry calls
\* Voice.login again in batch mode with the credentials of the environment.
RetryQuestion == "Login failed. Retry? [Y/n] "
RetryAsked == Cardinality({i \in DOMAIN cli.asked : cli.asked[i] = RetryQuestion})

C11_RetryRules ==
    cli.pc # "shell" =>
        /\ Len(cli.calls) <= 2
        /\ RetryAsked <= 1
        /\ last.op = "cli_login" =>
                /\ last.batch <=> (cli.kwargs.batch = "True"
                                    \/ cli.environ.GOOGLE_VOICE_BATCH = "true")
                /\ (last.outcome = "LoginError" /\ last.batch) =>
                        /\ cli.pc = "exit"
                        /\ ~cli.loggedin
                        /\ RetryAsked = Len(cli.calls) - 1
                /\ (last.outcome = "LoginError" /\ ~last.batch) =>
                        /\ cli.pc = "retry"
                        /\ Len(cli.calls) = 1
                        /\ RetryAsked = 1
                /\ Len(cli.calls) = 2 =>
                        /\ last.batch
                        /\ cli.calls[2].email = cli.environ.GOOGLE_VOICE_USER
                        /\ cli.calls[2].passwd = cli.environ.GOOGLE_VOICE_PASS
        /\ last.op = "cli_retry" =>
                /\ Len(cli.calls) = 1
                /\ IF last.answer = "n"
                   THEN cli.pc = "exit" /\ ~cli.loggedin
                   ELSE cli.pc = "login" /\ cli.kwargs.batch = "True"

\* the function has returned, or an exception has left it
LoginEnded == cli.pc \in {"loggedin", "exit", "crash"}

\* C11, as stated: the rules above, and the login returns True exactly when
\* its last call of Voice.login did not raise LoginError.
C11_TrueIffNoLoginError ==
    /\ C11_RetryRules
    /\ (last.op = "cli_login" /\ LoginEnded) =>
            (cli.pc = "loggedin" <=> last.outcome # "LoginError")

\* C11, amended: the rules above; the login returns True exactly when its
\* last call of Voice.login returned, any exception of that call other than
\* LoginError leaves the login uncaught; and every login that is started
\* ends.
C11_LoginOutcome ==
    /\ C11_RetryRules
    /\ (last.op = "cli_login" /\ LoginEnded) =>
            /\ cli.pc = "loggedin" <=> last.outcome = "returned"
            /\ cli.pc = "crash"
                    <=> last.outcome \notin {"returned", "LoginError"}

C11_CliLoginRetry ==
    /\ []C11_LoginOutcome
    /\ (cli.pc = "login") ~> LoginEnded

\* a retry the user accepted, whose second call of Voice.login succeeded
C11_Witness ==
    /\ last.op = "cli_login"
    /\ Len(cli.calls) = 2
    /\ RetryAsked = 1
    /\ cli.pc = "loggedin"

\* C12: at most one request is in flight at any time, and the one in
\* flight is the last one sent: every request before it has been answered
\* (or has failed) before it was issued, within an operation and from one
\* operation to the next.
C12_OneRequestInFlight ==
    /\ Cardinality(wire.inflight) <= 1
    /\ wire.inflight \subseteq {wire.sent}
    /\ wire.pc = "idle" => wire.inflight = {}

\* the second request of a method in flight, in a method called after an
\* earlier method returned
C12_Witness ==
    /\ wire.pc = "blocked"
    /\ wire.sent = 2
    /\ wire.inflight = {2}
    /\ special \in Tokens

\* the step of the authentication flow a request is: the login page GET,
\* the credentials POST, an SMS code submission, the smsToken POST, the
\* inbox fetch
Stage(req) ==
    CASE req.page = "login" /\ req.method = "GET" -> 1
      [] req.page = "login_post" -> 2
      [] req.page = "smsauth" -> 3
      [] req.page = "login" /\ req.method = "POST" -> 4
      [] req.page = "INBOX" -> 5
      [] OTHER -> 0

\* C13: the requests of a login that is not short-circuited are, in this
\* order: the login page GET; the credentials POST with the gxf value of
\* that page; SMS code submissions, only when the credentials POST landed
\* on the SMS-auth url; one smsToken POST, after a code submission; the
\* inbox fetch, last and straight after the credentials POST or the
\* smsToken POST.  Only code submissions repeat.  A short-circuited login
\* sends nothing.
C13_LinearAuthFlow ==
    last.op = "login" =>
        IF PyTruthy(last.before) THEN reqs = <<>>
        ELSE
        /\ reqs # <<>> /\ Stage(reqs[1]) = 1
        /\ \A i \in DOMAIN reqs : Stage(reqs[i]) \in 1..5
        /\ \A i \in DOMAIN reqs \ {1} :
                LET prev == Stage(reqs[i - 1])
                    this == Stage(reqs[i])
                IN  /\ this = 2 => /\ prev = 1
                                   /\ last.env.gxf
                                   /\ reqs[i].data.items["gxf"] = "gxf"
                    /\ this = 3 => prev \in {2, 3} /\ last.env.sms
                    /\ this = 4 => prev = 3
                    /\ this = 5 => prev \in {2, 4} /\ i = Len(reqs)
                    /\ this # 1
        /\ last.outcome \in {"returned", "LoginError"} =>
                \/ Stage(reqs[Len(reqs)]) = 5
                \/ Stage(reqs[Len(reqs)]) = 3 /\ last.outcome = "LoginError"

\* a second login, after a logout, that went through the whole flow
C13_Witness ==
    /\ last.op = "login"
    /\ last.before = None
    /\ last.outcome = "returned"
    /\ Len(reqs) = 3
    /\ Stage(reqs[3]) = 5

\* the code submissions of the login
SmsSubmissions == Cardinality({i \in DOMAIN reqs : Stage(reqs[i]) = 3})

\* C14: a login whose credentials POST landed on the SMS-auth url submits,
\* with a key, one generated code and one more for every answer that
\* carries the marker, five at most, and stops at the first answer that
\* does not; with no key it asks for one PIN and submits it once; and when
\* the last answer carries no smsToken the login raises LoginError.
C14_SmsRetryLoop ==
    (last.op = "login" /\ ~PyTruthy(last.before) /\ last.env.gxf
        /\ last.env.sms) =>
        LET rejected == last.env.smsauth.rejected
            wanted == IF last.key = None THEN 1
                      ELSE IF rejected + 1 <= MaxSmsTries
                           THEN rejected + 1 ELSE MaxSmsTries
            token == wanted > rejected /\ last.env.smsauth.smsToken
        IN  /\ SmsSubmissions = wanted
            /\ last.key = None =>
                    Cardinality({i \in DOMAIN prompts :
                                    prompts[i] = "SMS PIN: "}) = 1
            /\ ~token => last.outcome = "LoginError"

====
